---- MODULE Spec2Model ----
(***************************************************************************)
(* Charity Donation Tracker: the logic functions of charity_tracker.py     *)
(* over the two JSON files (donors.json, donations.json) and the receipts  *)
(* folder.  Text is a sequence of one-character strings, so that strip(),  *)
(* lower(), replace() and float() are computed, not assumed.  Amounts are  *)
(* decimal numbers with at most two fraction digits, held in hundredths.   *)
(* A handler is the function from the files it finds and the texts typed   *)
(* to the message box it shows, the value it returns and the files it      *)
(* leaves; a button press commits the files.  The clock text goes into the *)
(* donation and the receipt name and is never read again: one reading of   *)
(* the clock stands for all of them.                                       *)
(***************************************************************************)
EXTENDS Integers, Sequences, FiniteSets, TLC

VARIABLES donorsFile, donationsFile, receipts

vars == <<donorsFile, donationsFile, receipts>>

(***************************************************************************)
(* Bounds of the model: the lengths the two lists may grow to.             *)
(***************************************************************************)
MaxDonors == 2
MaxDonations == 2

(***************************************************************************)
(* The texts typed into the entry fields, and the clock readings.          *)
(***************************************************************************)
NameTexts == {<<>>, <<" ">>, <<"a">>, <<"A">>, <<" ", "a">>, <<"b">>}

ContactTexts == {<<>>, <<" ">>, <<"c", " ">>}

\* Add Donor tab: every name with a contact, and "b" with no contact at all
\* or with a blank one
AddInputs ==
    (NameTexts \X {<<"c", " ">>}) \cup ({<<"b">>} \X ContactTexts)

\* Record Donation tab: the names typed there
DonorNameTexts == {<<"a">>, <<"A">>, <<" ", "a">>, <<"b">>}

AmountTexts == {<<"x">>, <<"1">>, <<" ", ".", "5">>}

\* Delete Specific Donor field
DeleteNameTexts == {<<>>, <<"a">>, <<"A">>, <<" ", "a">>, <<"b">>}

\* datetime.now(): the readings of the clock
Times == {0}

(***************************************************************************)
(* Python text primitives.                                                 *)
(***************************************************************************)
IsSpace(c) == c \in {" "}

RECURSIVE lstrip(_)
lstrip(s) ==
    IF s = <<>> THEN <<>>
    ELSE IF IsSpace(Head(s)) THEN lstrip(Tail(s)) ELSE s

RECURSIVE rstrip(_)
rstrip(s) ==
    IF s = <<>> THEN <<>>
    ELSE IF IsSpace(s[Len(s)]) THEN rstrip(SubSeq(s, 1, Len(s) - 1)) ELSE s

strip(s) == rstrip(lstrip(s))

LowerChar(c) == IF c = "A" THEN "a" ELSE c

lower(s) == [i \in 1..Len(s) |-> LowerChar(s[i])]

replace(s, old, new) == [i \in 1..Len(s) |-> IF s[i] = old THEN new ELSE s[i]]

Digits == <<"0", "1", "2", "3", "4", "5", "6", "7", "8", "9">>

IsDigit(c) == \E i \in 1..10 : Digits[i] = c

DigitVal(c) == (CHOOSE i \in 1..10 : Digits[i] = c) - 1

RECURSIVE DigitsVal(_)
DigitsVal(s) ==
    IF s = <<>> THEN 0
    ELSE 10 * DigitsVal(SubSeq(s, 1, Len(s) - 1)) + DigitVal(s[Len(s)])

AllDigits(s) == \A i \in 1..Len(s) : IsDigit(s[i])

\* float(text): surrounding whitespace is dropped, then an optional sign, then
\* digits with at most one decimal point and at least one digit.  The value is
\* in hundredths; ok = FALSE stands for ValueError.
float(text) ==
    LET t == strip(text)
        signed == t # <<>> /\ Head(t) \in {"-", "+"}
        body == IF signed THEN Tail(t) ELSE t
        dots == {i \in 1..Len(body) : body[i] = "."}
        dot == IF dots = {} THEN Len(body) + 1 ELSE CHOOSE i \in dots : TRUE
        whole == SubSeq(body, 1, dot - 1)
        frac == SubSeq(body, dot + 1, Len(body))
        wellFormed == /\ Cardinality(dots) <= 1
                      /\ AllDigits(whole) /\ AllDigits(frac)
                      /\ Len(whole) + Len(frac) >= 1
                      /\ Len(frac) <= 2
        hundredths == 100 * DigitsVal(whole)
                      + (IF Len(frac) = 1 THEN 10 * DigitsVal(frac) ELSE DigitsVal(frac))
    IN  IF wellFormed
        THEN [ok |-> TRUE,
              value |-> IF signed /\ Head(t) = "-" THEN 0 - hundredths ELSE hundredths]
        ELSE [ok |-> FALSE, value |-> 0]

\* f"{total:.2f}" of a value held in hundredths: sign, whole part, two digits.
Format2(h) ==
    LET m == IF h < 0 THEN 0 - h ELSE h
    IN  [neg |-> h < 0, whole |-> m \div 100, frac |-> <<(m % 100) \div 10, m % 10>>]

(***************************************************************************)
(* Data handling.  A file is absent or holds one JSON document.            *)
(***************************************************************************)
NoFile == [exists |-> FALSE, json |-> <<>>]

\* json.load(f), or [] on FileNotFoundError
load_data(file) == IF file.exists THEN file.json ELSE <<>>

\* json.dump(data, f): the file is created or replaced, and holds the document
save_data(data) == [exists |-> TRUE, json |-> data]

(***************************************************************************)
(* State after start-up: no data file yet, an empty receipts folder.       *)
(***************************************************************************)
Init ==
    /\ donorsFile = NoFile
    /\ donationsFile = NoFile
    /\ receipts = {}

\* the files as a call finds them
Disk == [donorsFile |-> donorsFile, donationsFile |-> donationsFile, receipts |-> receipts]

\* What a call leaves behind: the title of the message box it showed ("none"
\* when it showed none), the value it returned or displayed, and the files.
Shown(st, title) ==
    [msg |-> title, out |-> <<>>, donorsFile |-> st.donorsFile,
     donationsFile |-> st.donationsFile, receipts |-> st.receipts]

\* the files as a call leaves them
After(r) ==
    [donorsFile |-> r.donorsFile, donationsFile |-> r.donationsFile, receipts |-> r.receipts]

Commit(r) ==
    /\ donorsFile' = r.donorsFile
    /\ donationsFile' = r.donationsFile
    /\ receipts' = r.receipts

(***************************************************************************)
(* add_donor_logic                                                         *)
(***************************************************************************)
\* not name or not contact
missing_input(name, contact) == name = <<>> \/ contact = <<>>

\* any(d['name'].strip().lower() == name.lower() for d in donors)
is_duplicate(donors, name) ==
    \E i \in 1..Len(donors) : lower(strip(donors[i].name)) = lower(name)

\* {"name": name.strip(), "contact": contact.strip()}
new_donor(name, contact) == [name |-> strip(name), contact |-> strip(contact)]

add_donor_logic(st, name, contact) ==
    LET donors == load_data(st.donorsFile)
    IN  IF missing_input(name, contact) THEN Shown(st, "Input Error")
        ELSE IF is_duplicate(donors, name) THEN Shown(st, "Duplicate")
        ELSE [Shown(st, "Success") EXCEPT
                !.donorsFile = save_data(Append(donors, new_donor(name, contact)))]

(***************************************************************************)
(* record_donation_logic                                                   *)
(***************************************************************************)
\* next((d for d in donors if d['name'].strip().lower() == name.lower()), None)
find_donor(donors, name) ==
    {i \in 1..Len(donors) : lower(strip(donors[i].name)) = lower(name)}

\* datetime.now(india_tz).strftime("%Y-%m-%d %H:%M:%S %Z")
date_text(t) == <<t, "IST">>

\* {"name": name, "amount": amount, "date": date}
new_donation(name, value, t) == [name |-> name, amount |-> value, date |-> date_text(t)]

\* RECEIPTS_FOLDER + f"receipt_{name.replace(' ', '_')}_{now:%Y%m%d%H%M%S}.txt"
receipt_file(name, t) == <<"receipt", replace(name, " ", "_"), t>>

\* open(receipt_file, 'w'): the folder gains the file, or the file is rewritten
write_receipt(files, name, t) == files \cup {receipt_file(name, t)}

\* a slip: the ValueError branch falls through and the donation is appended
with_donation_unchecked(donations, name, parsed, t) ==
    Append(donations, new_donation(name, parsed.value, t))

\* the donation list once the donor is found: float(amount) either raises
\* ValueError, and the function returns, or gives the amount to append
with_donation(donations, name, parsed, t) ==
    IF parsed.ok THEN Append(donations, new_donation(name, parsed.value, t))
    ELSE donations

\* t1 is the clock read for the stored date, t2 the later read for the file name
record_donation_logic(st, name, amount, t1, t2) ==
    LET donors == load_data(st.donorsFile)
        donations == load_data(st.donationsFile)
        appended == with_donation(donations, name, float(amount), t1)
    IN  IF find_donor(donors, name) = {} THEN Shown(st, "Not Found")
        ELSE IF appended = donations THEN Shown(st, "Invalid Input")
        ELSE [Shown(st, "Donation Recorded") EXCEPT
                !.donationsFile = save_data(appended),
                !.receipts = write_receipt(st.receipts, name, t2)]

(***************************************************************************)
(* get_donor_summary                                                       *)
(***************************************************************************)
\* sum(...) adds the items from left to right, starting at 0
RECURSIVE sum(_)
sum(amounts) ==
    IF amounts = <<>> THEN 0
    ELSE sum(SubSeq(amounts, 1, Len(amounts) - 1)) + amounts[Len(amounts)]

\* a slip: the names compared without .lower()
donation_of_same_case(d, donor) == strip(d.name) = strip(donor.name)

\* d['name'].strip().lower() == donor['name'].strip().lower()
donation_of(d, donor) == lower(strip(d.name)) = lower(strip(donor.name))

donor_total(donor, donations) ==
    LET theirs == SelectSeq(donations, LAMBDA d : donation_of(d, donor))
    IN  sum([i \in 1..Len(theirs) |-> theirs[i].amount])

\* data.append((donor['name'], donor['contact'], f"{total:.2f}")) for each donor
summary_rows(donors, donations) ==
    [i \in 1..Len(donors) |->
        <<donors[i].name, donors[i].contact, Format2(donor_total(donors[i], donations))>>]

get_donor_summary(st) ==
    [Shown(st, "none") EXCEPT
        !.out = summary_rows(load_data(st.donorsFile), load_data(st.donationsFile))]

(***************************************************************************)
(* generate_report_logic                                                   *)
(***************************************************************************)
RECURSIVE GCD(_, _)
GCD(a, b) == IF b = 0 THEN a ELSE GCD(b, a % b)

Abs(n) == IF n < 0 THEN 0 - n ELSE n

\* n / d, kept exact as a fraction in lowest terms
divide(n, d) ==
    LET g == GCD(Abs(n), d)
    IN  [num |-> IF n < 0 THEN 0 - (Abs(n) \div g) ELSE n \div g, den |-> d \div g]

\* a slip: >= for >, so that the last of several maxima is kept
later_is_not_less(held, item) == item.amount >= held.amount

\* max(donations, key=...) replaces the item it holds only by a later item
\* whose key is strictly greater
later_is_greater(held, item) == item.amount > held.amount

RECURSIVE max_scan(_, _, _)
max_scan(donations, i, held) ==
    IF i > Len(donations) THEN held
    ELSE max_scan(donations, i + 1,
                  IF later_is_greater(held, donations[i]) THEN donations[i] ELSE held)

max(donations) == max_scan(donations, 2, donations[1])

\* total = sum(d['amount'] for d in donations)
report_total(donations) == sum([i \in 1..Len(donations) |-> donations[i].amount])

\* avg = total / len(donations)
report_avg(donations) == divide(report_total(donations), Len(donations))

generate_report_logic(st) ==
    LET donations == load_data(st.donationsFile)
    IN  IF donations = <<>> THEN Shown(st, "No Data")
        ELSE [Shown(st, "Donation Report") EXCEPT
                !.out = [total |-> report_total(donations),
                         avg |-> report_avg(donations),
                         top |-> max(donations)]]

(***************************************************************************)
(* delete_specific_donor_logic                                             *)
(***************************************************************************)
\* any(d['name'].strip().lower() == name.lower() for d in donors)
donor_known(donors, name) ==
    \E i \in 1..Len(donors) : lower(strip(donors[i].name)) = lower(name)

\* [d for d in donors if d['name'].strip().lower() != name.lower()]
keep_donors(donors, name) ==
    SelectSeq(donors, LAMBDA d : lower(strip(d.name)) # lower(name))

\* a slip: the donations filtered without .lower() on the stored name
keep_donations_same_case(donations, name) ==
    SelectSeq(donations, LAMBDA d : strip(d.name) # lower(name))

\* a slip: the donation list saved as it was loaded
keep_all_donations(donations, name) == donations

\* [d for d in donations if d['name'].strip().lower() != name.lower()]
keep_donations(donations, name) ==
    SelectSeq(donations, LAMBDA d : lower(strip(d.name)) # lower(name))

\* confirm is the answer askyesno gives when the call gets as far as asking
delete_specific_donor_logic(st, name, confirm) ==
    LET donors == load_data(st.donorsFile)
        donations == load_data(st.donationsFile)
    IN  IF name = <<>> THEN Shown(st, "Input Error")
        ELSE IF ~donor_known(donors, name) THEN Shown(st, "Not Found")
        ELSE IF confirm
        THEN [Shown(st, "Deleted") EXCEPT
                !.donorsFile = save_data(keep_donors(donors, name)),
                !.donationsFile = save_data(keep_donations(donations, name))]
        ELSE Shown(st, "none")

(***************************************************************************)
(* delete_all_data_logic                                                   *)
(***************************************************************************)
\* a slip: the existence test inverted, so that an existing file stays
remove_if_absent(file) == file

\* if os.path.exists(file): os.remove(file)
remove(file) == NoFile

delete_all_data_logic(st, confirm) ==
    IF confirm
    THEN [Shown(st, "Deleted") EXCEPT
            !.donorsFile = remove(st.donorsFile),
            !.donationsFile = remove(st.donationsFile)]
    ELSE Shown(st, "none")

(***************************************************************************)
(* The buttons of the window: one command at a time, each run to its end.  *)
(***************************************************************************)
WithinBounds(r) ==
    /\ Len(load_data(r.donorsFile)) <= MaxDonors
    /\ Len(load_data(r.donationsFile)) <= MaxDonations

AddDonor ==
    \E in \in AddInputs :
        \E r \in {add_donor_logic(Disk, in[1], in[2])} : WithinBounds(r) /\ Commit(r)

RecordDonation ==
    \E name \in DonorNameTexts, amount \in AmountTexts, t1 \in Times, t2 \in Times :
        /\ t1 <= t2
        /\ \E r \in {record_donation_logic(Disk, name, amount, t1, t2)} :
              WithinBounds(r) /\ Commit(r)

RefreshList == \E r \in {get_donor_summary(Disk)} : Commit(r)

GenerateReport == \E r \in {generate_report_logic(Disk)} : Commit(r)

DeleteDonor ==
    \E name \in DeleteNameTexts, confirm \in BOOLEAN :
        \E r \in {delete_specific_donor_logic(Disk, name, confirm)} : Commit(r)

DeleteAll ==
    \E confirm \in BOOLEAN :
        \E r \in {delete_all_data_logic(Disk, confirm)} : Commit(r)

Next ==
    \/ AddDonor
    \/ RecordDonation
    \/ RefreshList
    \/ GenerateReport
    \/ DeleteDonor
    \/ DeleteAll

Spec == Init /\ [][Next]_vars

(***************************************************************************)
(* The properties.  Each is stated of every call that can be made in a     *)
(* reachable state: the call's result is what the handler computes there.  *)
(***************************************************************************)
Donors == load_data(donorsFile)

Donations == load_data(donationsFile)

\* a name trimmed and lowercased
Norm(text) == lower(strip(text))

\* the amount texts that can be typed, and the number each numeral denotes
NumberTexts == {<<"1">>, <<" ", ".", "5">>, <<"-", "1">>}

\* texts that float() refuses
NoNumberTexts == {<<>>, <<"x">>, <<"-">>, <<"1", "x">>, <<"1", " ", "2">>}

ValueOf(text) ==
    CASE text = <<"1">> -> 100
      [] text = <<" ", ".", "5">> -> 50
      [] text = <<"-", "1">> -> 0 - 100

\* the sum of the amounts of the donations whose normalised name is key
RECURSIVE TotalFor(_, _)
TotalFor(donations, key) ==
    IF donations = <<>> THEN 0
    ELSE (IF Norm(Head(donations).name) = key THEN Head(donations).amount ELSE 0)
         + TotalFor(Tail(donations), key)

RECURSIVE TotalOfAll(_)
TotalOfAll(donations) ==
    IF donations = <<>> THEN 0
    ELSE Head(donations).amount + TotalOfAll(Tail(donations))

ZeroTotal == [neg |-> FALSE, whole |-> 0, frac |-> <<0, 0>>]

SomeDonorNormed(donors, key) == \E i \in 1..Len(donors) : Norm(donors[i].name) = key

\* C1: the donor store never holds two records whose names are equal after
\* trimming and lowercasing.
C1_NoDuplicateDonors ==
    \A i, j \in 1..Len(Donors) :
        i # j => Norm(Donors[i].name) # Norm(Donors[j].name)

\* C2: addDonor of a name whose trimmed, lowercased form is that of an existing
\* donor shows Duplicate and leaves the donor store as it was.
C2_DuplicateRejected ==
    \A name \in NameTexts, contact \in ContactTexts :
        (/\ strip(name) # <<>>
         /\ strip(contact) # <<>>
         /\ SomeDonorNormed(Donors, Norm(name)))
        => LET r == add_donor_logic(Disk, name, contact)
           IN  r.msg = "Duplicate" /\ After(r) = Disk

\* C3: addDonor of a name or contact that is empty after trimming shows the
\* input error and changes nothing, so that no stored donor has an empty name
\* or an empty contact.
C3_EmptyRejected ==
    /\ \A name \in NameTexts, contact \in ContactTexts :
          (strip(name) = <<>> \/ strip(contact) = <<>>)
          => LET r == add_donor_logic(Disk, name, contact)
             IN  r.msg = "Input Error" /\ After(r) = Disk
    /\ \A i \in 1..Len(Donors) : Donors[i].name # <<>> /\ Donors[i].contact # <<>>

\* C4: recordDonation shows Not Found when no donor matches the name, and shows
\* Invalid Input when a donor matches and the amount text is no number; in both
\* cases the two files and the receipts folder are as before the call.
C4_FailedDonationNoEffect ==
    \A name \in NameTexts, t1 \in Times, t2 \in Times :
        IF SomeDonorNormed(Donors, lower(name))
        THEN \A amount \in NoNumberTexts :
                record_donation_logic(Disk, name, amount, t1, t2) = Shown(Disk, "Invalid Input")
        ELSE \A amount \in NoNumberTexts \cup NumberTexts :
                record_donation_logic(Disk, name, amount, t1, t2) = Shown(Disk, "Not Found")

C4_Witness ==
    /\ Donations # <<>>
    /\ receipts # {}
    /\ \E name \in NameTexts :
          /\ SomeDonorNormed(Donors, lower(name))
          /\ record_donation_logic(Disk, name, <<"x">>, 0, 0).msg = "Invalid Input"
    /\ \E name \in NameTexts \ {<<>>} :
          record_donation_logic(Disk, name, <<"1">>, 0, 0).msg = "Not Found"

\* C5: deleteDonor of a name that an existing donor has (trimmed, lowercased):
\* confirmed, it leaves no donor and no donation of that name and keeps the
\* other records in their order; declined, it changes nothing and shows no error.
C5_DeleteDonor ==
    \A name \in DeleteNameTexts, confirm \in BOOLEAN :
        SomeDonorNormed(Donors, lower(name))
        => LET r == delete_specific_donor_logic(Disk, name, confirm)
           IN  IF confirm
               THEN /\ load_data(r.donorsFile)
                         = SelectSeq(Donors, LAMBDA d : Norm(d.name) # lower(name))
                    /\ load_data(r.donationsFile)
                         = SelectSeq(Donations, LAMBDA d : Norm(d.name) # lower(name))
               ELSE After(r) = Disk /\ r.msg = "none"

\* C6: after a confirmed deleteAllData both stores load as the empty sequence,
\* the summary that follows is empty and the report that follows is the empty
\* signal; a declined deleteAllData changes neither store.
C6_DeleteAll ==
    LET yes == delete_all_data_logic(Disk, TRUE)
        no == delete_all_data_logic(Disk, FALSE)
    IN  /\ load_data(yes.donorsFile) = <<>>
        /\ load_data(yes.donationsFile) = <<>>
        /\ get_donor_summary(After(yes)).out = <<>>
        /\ generate_report_logic(After(yes)).msg = "No Data"
        /\ After(no) = Disk

C6_Witness ==
    /\ Len(Donors) = MaxDonors
    /\ Len(Donations) = MaxDonations
    /\ generate_report_logic(Disk).msg = "Donation Report"

\* C7: addDonor of a name and contact that are non-empty after trimming, where
\* no donor has the same trimmed, lowercased name, succeeds, appends the one
\* trimmed record at the end of the donor store, leaves the donation store as
\* it was, and the summary that follows lists that donor with total 0.00.
C7_AddDonorFresh ==
    \A name \in NameTexts, contact \in ContactTexts :
        (/\ strip(name) # <<>>
         /\ strip(contact) # <<>>
         /\ ~SomeDonorNormed(Donors, Norm(name)))
        => LET r == add_donor_logic(Disk, name, contact)
               rows == get_donor_summary(After(r)).out
           IN  /\ r.msg = "Success"
               /\ load_data(r.donorsFile)
                    = Append(Donors, [name |-> strip(name), contact |-> strip(contact)])
               /\ load_data(r.donationsFile) = Donations
               /\ r.receipts = receipts
               /\ Len(rows) = Len(Donors) + 1
               /\ rows[Len(rows)] = <<strip(name), strip(contact), ZeroTotal>>

\* a donor that gave and was deleted can be added again, while another
\* donor's donation is on file
C7_Witness ==
    /\ Donations # <<>>
    /\ \E name \in NameTexts :
          /\ strip(name) # <<>>
          /\ ~SomeDonorNormed(Donors, Norm(name))
          /\ \E f \in receipts : lower(f[2]) = Norm(name)
          /\ add_donor_logic(Disk, name, <<"c", " ">>).msg = "Success"

\* C8: getDonorSummary gives one row per donor record, in the order of the
\* donor store, with the formatted sum of the donations whose trimmed,
\* lowercased name is the donor's, and changes neither store; a successful
\* recordDonation appends one donation, leaves the donor store as it was, raises
\* the total of each donor of that name by the amount and leaves the others'.
C8_SummaryTotals ==
    LET s == get_donor_summary(Disk)
    IN  /\ After(s) = Disk
        /\ Len(s.out) = Len(Donors)
        /\ \A i \in 1..Len(Donors) :
              s.out[i] = <<Donors[i].name, Donors[i].contact,
                           Format2(TotalFor(Donations, Norm(Donors[i].name)))>>
        /\ \A name \in NameTexts, amount \in NumberTexts, t1 \in Times, t2 \in Times :
              LET r == record_donation_logic(Disk, name, amount, t1, t2)
              IN  r.msg = "Donation Recorded"
                  => /\ r.donorsFile = donorsFile
                     /\ Len(load_data(r.donationsFile)) = Len(Donations) + 1
                     /\ SubSeq(load_data(r.donationsFile), 1, Len(Donations)) = Donations
                     /\ get_donor_summary(After(r)).out =
                          [i \in 1..Len(Donors) |->
                             <<Donors[i].name, Donors[i].contact,
                               Format2(TotalFor(Donations, Norm(Donors[i].name))
                                       + (IF Norm(Donors[i].name) = Norm(name)
                                          THEN ValueOf(amount) ELSE 0))>>]

\* two donors, each with a donation on file, one typed in another case than
\* the donor was stored in
C8_Witness ==
    /\ Len(Donors) >= 2
    /\ \E i, j \in 1..Len(Donors), k, l \in 1..Len(Donations) :
          /\ Norm(Donors[i].name) # Norm(Donors[j].name)
          /\ Norm(Donations[k].name) = Norm(Donors[i].name)
          /\ Donations[k].name # Donors[i].name
          /\ Norm(Donations[l].name) = Norm(Donors[j].name)
    /\ get_donor_summary(Disk).out[1][3] # ZeroTotal

\* C9: generateReport gives the empty signal exactly when the donation store
\* is empty; otherwise total is the sum of all amounts, average is the total
\* divided by the number of donations, top is the earliest donation of the
\* greatest amount; it changes neither store.
C9_Report ==
    LET r == generate_report_logic(Disk)
        n == Len(Donations)
    IN  /\ After(r) = Disk
        /\ r.msg = "No Data" <=> Donations = <<>>
        /\ Donations # <<>>
           => /\ r.msg = "Donation Report"
              /\ r.out.total = TotalOfAll(Donations)
              /\ r.out.avg.den > 0
              /\ r.out.avg.num * n = TotalOfAll(Donations) * r.out.avg.den
              /\ \E k \in 1..n :
                    /\ r.out.top = Donations[k]
                    /\ \A j \in 1..n : Donations[j].amount <= Donations[k].amount
                    /\ \A j \in 1..(k - 1) : Donations[j].amount < Donations[k].amount

\* two different donations share the greatest amount
C9_Witness ==
    /\ Len(Donations) >= 2
    /\ \E i, j \in 1..Len(Donations) :
          /\ i < j
          /\ Donations[i] # Donations[j]
          /\ Donations[i].amount = Donations[j].amount
          /\ \A k \in 1..Len(Donations) : Donations[k].amount <= Donations[i].amount
    /\ generate_report_logic(Disk).msg = "Donation Report"

\* C10: every donation on file has a name whose trimmed, lowercased form is
\* that of some donor on file.
C10_NoOrphanDonation ==
    \A k \in 1..Len(Donations) : SomeDonorNormed(Donors, Norm(Donations[k].name))

\* a donation typed in another case than its donor was stored in is on file,
\* after another donation was deleted with its donor
C10_Witness ==
    /\ \E k \in 1..Len(Donations), i \in 1..Len(Donors) :
          /\ Norm(Donations[k].name) = Norm(Donors[i].name)
          /\ Donations[k].name # Donors[i].name
    /\ \E f \in receipts : \A k \in 1..Len(Donations) : Norm(Donations[k].name) # lower(f[2])

====
